---- MODULE Spec2Model ----
(***************************************************************************)
(* crow_ecs: dense and sparse component storages and the skip-ahead merge  *)
(* join over them (src/src/lib.rs, tuple.rs, drain.rs, not.rs, maybe.rs).  *)
(*                                                                         *)
(* A storage is modelled by its `inner` field; a reference handed out by a *)
(* join is modelled by the place it points at ([at, val]); a value moved   *)
(* out by a drain keeps the identifier it was removed from in `at`.        *)
(* usize is modelled with WordBits bits; overflowing arithmetic panics     *)
(* when overflow_checks is on (debug profile) and wraps otherwise.         *)
(***************************************************************************)
EXTENDS Integers, Sequences, FiniteSets, TLC

VARIABLES
    store,            \* store[s].inner: the storages of the program
    overflow_checks,  \* the build profile: TRUE panics on overflow, FALSE wraps
    src,              \* src[j]: the joinable expression of join j (its kinds)
    phase,            \* phase[j]: "source", "handle", "joined", "dropped", "panicked", "hung"
    iter,             \* iter[j]: Joined::iter (before join(): the joinable handles)
    len,              \* len[j]: Joined::len
    pos,              \* pos[j]: Joined::pos
    out,              \* out[j]: the items next() has returned so far
    last,             \* last[j]: what the latest call of next() returned
    store0,           \* the storages as they were when the sources were formed
    ret               \* ret[s]: what the latest insert or remove on storage s returned

vars == <<store, overflow_checks, src, phase, iter, len, pos, out, last, store0, ret>>

-----------------------------------------------------------------------------
(* Bounds of the model.                                                    *)

WordBits == 5
MaxId == 3
MaxLen2 == 4
MaxLen3 == 2
MaxLen4 == 1
MaxOut == 6

USIZE_MAX == 2^WordBits - 1

Ids == 0..MaxId

-----------------------------------------------------------------------------
(* Option<T>, and usize arithmetic.                                        *)

None == <<>>
Some(x) == <<x>>
is_some(o) == o # None
is_none(o) == o = None
unwrap(o) == o[1]

Min(S) == CHOOSE x \in S : \A y \in S : x <= y
Max(S) == CHOOSE x \in S : \A y \in S : x >= y

\* a + b on usize: v is the wrapped result, panic whether the build panics.
add(a, b) == [v |-> (a + b) % (USIZE_MAX + 1),
              panic |-> overflow_checks /\ a + b > USIZE_MAX]

\* a - b on usize.
sub(a, b) == [v |-> (a - b + USIZE_MAX + 1) % (USIZE_MAX + 1),
              panic |-> overflow_checks /\ a < b]

-----------------------------------------------------------------------------
(* Storage<T>: inner is a Vec<Option<T>>, index i of the Vec is inner[i+1]. *)

Storage_new == [inner |-> <<>>]

\* a clear that empties the Vec, giving up its length
Storage_clear_truncated(s) == [inner |-> <<>>]

Storage_clear(s) == [inner |-> [i \in 1..Len(s.inner) |-> None]]

Storage_get(s, idx) ==
    IF idx < Len(s.inner) THEN s.inner[idx + 1] ELSE None

Storage_insert(s, idx, c) ==
    LET grown == IF idx >= Len(s.inner)
                 THEN s.inner \o [i \in 1..(idx + 1 - Len(s.inner)) |-> None]
                 ELSE s.inner
    IN  [s |-> [inner |-> [grown EXCEPT ![idx + 1] = Some(c)]],
         r |-> grown[idx + 1]]

\* a remove that reads the slot without taking the value out of it
Storage_remove_kept(s, idx) == [s |-> s, r |-> Storage_get(s, idx)]

Storage_remove(s, idx) ==
    IF idx < Len(s.inner)
    THEN [s |-> [inner |-> [s.inner EXCEPT ![idx + 1] = None]],
          r |-> s.inner[idx + 1]]
    ELSE [s |-> s, r |-> None]

(* SparseStorage<T>: inner is a BTreeMap<usize, T>, a function on its keys. *)

EmptyMap == <<>>
MapRemove(m, k) == [x \in (DOMAIN m) \ {k} |-> m[x]]
MapInsert(m, k, v) == [x \in (DOMAIN m) \cup {k} |-> IF x = k THEN v ELSE m[x]]

SparseStorage_new == [inner |-> EmptyMap]

SparseStorage_clear(s) == [inner |-> EmptyMap]

SparseStorage_get(s, idx) ==
    IF idx \in DOMAIN s.inner THEN Some(s.inner[idx]) ELSE None

SparseStorage_insert(s, idx, c) ==
    [s |-> [inner |-> MapInsert(s.inner, idx, c)],
     r |-> SparseStorage_get(s, idx)]

SparseStorage_remove(s, idx) ==
    [s |-> [inner |-> MapRemove(s.inner, idx)],
     r |-> SparseStorage_get(s, idx)]

\* self.inner.keys().last()
last_key(m) == IF DOMAIN m = {} THEN None ELSE Some(Max(DOMAIN m))

\* the keys of a map in ascending order (btree_map iteration order)
RECURSIVE SortedKeys(_)
SortedKeys(K) ==
    IF K = {} THEN <<>> ELSE <<Min(K)>> \o SortedKeys(K \ {Min(K)})

\* a reference to (or a value moved out of) slot `at`
Ref(at, o) == IF is_some(o) THEN Some([at |-> at, val |-> unwrap(o)]) ELSE None

-----------------------------------------------------------------------------
(* The skip-capable iteration strategies.  may_skip returns                *)
(* [c: the strategy afterwards, n: the hint, panic]; next and nth return   *)
(* [c, r: Option<Item>, s: the storages afterwards, panic].                *)

\* slice.iter().take_while(|opt| opt.is_none()).count()
take_while_none(sl) ==
    LET some == {i \in 1..Len(sl) : is_some(sl[i])}
    IN  IF some = {} THEN Len(sl) ELSE Min(some) - 1

\* slice.iter().take_while(|opt| opt.is_some()).count()
take_while_some(sl) ==
    LET none == {i \in 1..Len(sl) : is_none(sl[i])}
    IN  IF none = {} THEN Len(sl) ELSE Min(none) - 1

\* the slice inner[lo..hi] an Iter or IterMut still holds
Slice(c, S) == SubSeq(S[c.st].inner, c.lo + 1, c.hi)

(* Iter<'a, T> { slice } *)

Iter_new(st, S) == [kind |-> "Iter", st |-> st, lo |-> 0, hi |-> Len(S[st].inner)]

\* a hint that is one too long
Iter_may_skip_long(c, curr, S) ==
    [c |-> c, n |-> take_while_none(Slice(c, S)) + 1, panic |-> FALSE]

Iter_may_skip(c, curr, S) ==
    [c |-> c, n |-> take_while_none(Slice(c, S)), panic |-> FALSE]

Iter_nth(c, n, S) ==
    IF c.hi - c.lo > n
    THEN [c |-> [c EXCEPT !.lo = c.lo + n + 1],
          r |-> Ref(c.lo + n, S[c.st].inner[c.lo + n + 1]),
          s |-> S, panic |-> FALSE]
    ELSE [c |-> [c EXCEPT !.lo = c.hi], r |-> None, s |-> S, panic |-> FALSE]

Iter_next(c, S) == Iter_nth(c, 0, S)

(* IterMut<'a, T> { iter: slice::IterMut } *)

IterMut_new(st, S) ==
    [kind |-> "IterMut", st |-> st, lo |-> 0, hi |-> Len(S[st].inner)]

\* the slice taken out of self.iter is never put back
IterMut_may_skip_emptied(c, curr, S) ==
    [c |-> [c EXCEPT !.lo = c.hi], n |-> take_while_none(Slice(c, S)), panic |-> FALSE]

IterMut_may_skip(c, curr, S) ==
    [c |-> c, n |-> take_while_none(Slice(c, S)), panic |-> FALSE]

\* a reference to the slot at the cursor, the n slots skipped forgotten
IterMut_nth_unskipped(c, n, S) ==
    IF n < c.hi - c.lo
    THEN [c |-> [c EXCEPT !.lo = c.lo + n + 1],
          r |-> IF is_some(S[c.st].inner[c.lo + n + 1])
                THEN Some([at |-> c.lo, val |-> unwrap(S[c.st].inner[c.lo + n + 1])])
                ELSE None,
          s |-> S, panic |-> FALSE]
    ELSE [c |-> [c EXCEPT !.lo = c.hi], r |-> None, s |-> S, panic |-> FALSE]

\* slice::IterMut::nth(n): past the end it empties the iterator
IterMut_nth(c, n, S) ==
    IF n < c.hi - c.lo
    THEN [c |-> [c EXCEPT !.lo = c.lo + n + 1],
          r |-> Ref(c.lo + n, S[c.st].inner[c.lo + n + 1]),
          s |-> S, panic |-> FALSE]
    ELSE [c |-> [c EXCEPT !.lo = c.hi], r |-> None, s |-> S, panic |-> FALSE]

IterMut_next(c, S) == IterMut_nth(c, 0, S)

(* SparseIter<'a, T> { inner, position } *)

SparseIter_new(st) == [kind |-> "SparseIter", st |-> st, position |-> 0]

\* self.inner.range(from..).next(): the least key >= from
range_first(m, from) ==
    LET ks == {k \in DOMAIN m : k >= from}
    IN  IF ks = {} THEN None ELSE Some(Min(ks))

SparseIter_may_skip(c, curr, S) ==
    LET c1 == [c EXCEPT !.position = curr]
        k == range_first(S[c.st].inner, c1.position)
    IN  IF is_none(k)
        THEN [c |-> c1, n |-> USIZE_MAX, panic |-> FALSE]
        ELSE [c |-> c1, n |-> sub(unwrap(k), c1.position).v,
              panic |-> sub(unwrap(k), c1.position).panic]

SparseIter_next(c, S) ==
    LET item == Ref(c.position, SparseStorage_get(S[c.st], c.position))
        p == add(c.position, 1)
    IN  [c |-> [c EXCEPT !.position = p.v], r |-> item, s |-> S, panic |-> p.panic]

SparseIter_nth(c, n, S) ==
    LET p == add(c.position, n)
    IN  IF p.panic
        THEN [c |-> c, r |-> None, s |-> S, panic |-> TRUE]
        ELSE SparseIter_next([c EXCEPT !.position = p.v], S)

(* SparseIterMut<'a, T> { inner: Peekable<btree_map::IterMut>, position }: *)
(* keys are the keys the map iterator has not handed out yet.              *)

SparseIterMut_new(st, S) ==
    [kind |-> "SparseIterMut", st |-> st,
     keys |-> SortedKeys(DOMAIN S[st].inner), position |-> 0]

SparseIterMut_may_skip(c, curr, S) ==
    LET c1 == [c EXCEPT !.position = curr]
    IN  IF c.keys = <<>>
        THEN [c |-> c1, n |-> USIZE_MAX, panic |-> FALSE]
        ELSE [c |-> c1, n |-> sub(Head(c.keys), curr).v,
              panic |-> sub(Head(c.keys), curr).panic]

SparseIterMut_next(c, S) ==
    LET position == c.position
        skipped == SelectSeq(c.keys, LAMBDA k : ~(k < position))
        hit == skipped # <<>> /\ Head(skipped) = position
        item == IF hit THEN Ref(position, SparseStorage_get(S[c.st], position))
                ELSE None
        rest == IF hit THEN Tail(skipped) ELSE skipped
        p == add(c.position, 1)
    IN  [c |-> [c EXCEPT !.keys = rest, !.position = p.v],
         r |-> item, s |-> S, panic |-> p.panic]

SparseIterMut_nth(c, n, S) ==
    LET p == add(c.position, n)
    IN  IF p.panic
        THEN [c |-> c, r |-> None, s |-> S, panic |-> TRUE]
        ELSE SparseIterMut_next([c EXCEPT !.position = p.v], S)

(* EntitiesIter((0..).map(Entity)): start is the RangeFrom's start.        *)

EntitiesIter_new == [kind |-> "EntitiesIter", start |-> 0]

EntitiesIter_may_skip(c, curr, S) == [c |-> c, n |-> 0, panic |-> FALSE]

EntitiesIter_nth(c, n, S) ==
    LET plus_n == add(c.start, n)
        after == add(plus_n.v, 1)
    IN  [c |-> [c EXCEPT !.start = after.v],
         r |-> Some([entity |-> plus_n.v]), s |-> S,
         panic |-> plus_n.panic \/ after.panic]

EntitiesIter_next(c, S) == EntitiesIter_nth(c, 0, S)

(* Drain<'a, T>(&'a mut Storage<T>, usize): f1 is the tuple field .1       *)

Drain_new(st) == [kind |-> "Drain", st |-> st, f1 |-> 0]

\* self.0.inner[curr..] panics, in every build, when curr is past the end
Drain_may_skip(c, curr, S) ==
    IF curr > Len(S[c.st].inner)
    THEN [c |-> c, n |-> 0, panic |-> TRUE]
    ELSE [c |-> c,
          n |-> take_while_none(SubSeq(S[c.st].inner, curr + 1, Len(S[c.st].inner))),
          panic |-> FALSE]

Drain_next(c, S) ==
    LET rm == Storage_remove(S[c.st], c.f1)
        p == add(c.f1, 1)
    IN  [c |-> [c EXCEPT !.f1 = p.v], r |-> Ref(c.f1, rm.r),
         s |-> [S EXCEPT ![c.st] = rm.s], panic |-> p.panic]

\* for _ in 0..n { self.0.remove(Entity(self.1)); self.1 += 1; }
RECURSIVE Drain_nth_loop(_, _, _)
Drain_nth_loop(c, S, n) ==
    IF n = 0
    THEN [c |-> c, s |-> S, panic |-> FALSE]
    ELSE LET rm == Storage_remove(S[c.st], c.f1)
             p == add(c.f1, 1)
             S1 == [S EXCEPT ![c.st] = rm.s]
         IN  IF p.panic
             THEN [c |-> c, s |-> S1, panic |-> TRUE]
             ELSE Drain_nth_loop([c EXCEPT !.f1 = p.v], S1, n - 1)

Drain_nth_then(l) ==
    IF l.panic
    THEN [c |-> l.c, r |-> None, s |-> l.s, panic |-> TRUE]
    ELSE Drain_next(l.c, l.s)

Drain_nth(c, n, S) == Drain_nth_then(Drain_nth_loop(c, S, n))

(* SparseDrain<'a, T> { inner: &mut BTreeMap, position } *)

SparseDrain_new(st) == [kind |-> "SparseDrain", st |-> st, position |-> 0]

SparseDrain_may_skip(c, curr, S) ==
    LET c1 == [c EXCEPT !.position = curr]
        k == range_first(S[c.st].inner, c1.position)
    IN  IF is_none(k)
        THEN [c |-> c1, n |-> USIZE_MAX, panic |-> FALSE]
        ELSE [c |-> c1, n |-> sub(unwrap(k), c1.position).v,
              panic |-> sub(unwrap(k), c1.position).panic]

SparseDrain_next(c, S) ==
    LET rm == SparseStorage_remove(S[c.st], c.position)
        p == add(c.position, 1)
    IN  [c |-> [c EXCEPT !.position = p.v], r |-> Ref(c.position, rm.r),
         s |-> [S EXCEPT ![c.st] = rm.s], panic |-> p.panic]

SparseDrain_nth(c, n, S) ==
    LET p == add(c.position, n)
    IN  IF p.panic
        THEN [c |-> c, r |-> None, s |-> S, panic |-> TRUE]
        ELSE SparseDrain_next([c EXCEPT !.position = p.v], S)

\* impl Drop for SparseDrain: self.inner.clear()
\* a drain handle whose drop leaves the remaining entries in place
SparseDrain_drop_forgotten(c, S) == S

SparseDrain_drop(c, S) == [S EXCEPT ![c.st] = SparseStorage_clear(S[c.st])]

(* NegatedIter(Iter) and NegatedSparseIter(SparseIter): f0 is the field .0 *)

Unit == [unit |-> TRUE]

\* if let Some(_) = ... { None } else { Some(()) }
negate(o) == IF is_some(o) THEN None ELSE Some(Unit)

\* the negated strategy's result, given what the wrapped one returned
Negated(c, i) ==
    [c |-> [c EXCEPT !.f0 = i.c], r |-> negate(i.r), s |-> i.s, panic |-> i.panic]

NegatedIter_new(st, S) == [kind |-> "NegatedIter", f0 |-> Iter_new(st, S)]

\* the hint of the wrapped strategy, copied without inverting the test
NegatedIter_may_skip_uninverted(c, curr, S) ==
    [c |-> c, n |-> take_while_none(Slice(c.f0, S)), panic |-> FALSE]

NegatedIter_may_skip(c, curr, S) ==
    [c |-> c, n |-> take_while_some(Slice(c.f0, S)), panic |-> FALSE]

NegatedIter_nth(c, n, S) == Negated(c, Iter_nth(c.f0, n, S))

NegatedIter_next(c, S) == Negated(c, Iter_next(c.f0, S))

NegatedSparseIter_new(st) == [kind |-> "NegatedSparseIter", f0 |-> SparseIter_new(st)]

NegatedSparseIter_may_skip(c, curr, S) == [c |-> c, n |-> 0, panic |-> FALSE]

NegatedSparseIter_nth(c, n, S) == Negated(c, SparseIter_nth(c.f0, n, S))

NegatedSparseIter_next(c, S) == Negated(c, SparseIter_next(c.f0, S))

-----------------------------------------------------------------------------
(* Dispatch over the strategies a storage or combinator joins into (the    *)
(* trait methods Join::may_skip, Iterator::next and Iterator::nth).        *)

Base_may_skip(c, curr, S) ==
    CASE c.kind = "Iter" -> Iter_may_skip(c, curr, S)
      [] c.kind = "IterMut" -> IterMut_may_skip(c, curr, S)
      [] c.kind = "SparseIter" -> SparseIter_may_skip(c, curr, S)
      [] c.kind = "SparseIterMut" -> SparseIterMut_may_skip(c, curr, S)
      [] c.kind = "Drain" -> Drain_may_skip(c, curr, S)
      [] c.kind = "SparseDrain" -> SparseDrain_may_skip(c, curr, S)
      [] c.kind = "NegatedIter" -> NegatedIter_may_skip(c, curr, S)
      [] c.kind = "NegatedSparseIter" -> NegatedSparseIter_may_skip(c, curr, S)
      [] c.kind = "EntitiesIter" -> EntitiesIter_may_skip(c, curr, S)

Base_nth(c, n, S) ==
    CASE c.kind = "Iter" -> Iter_nth(c, n, S)
      [] c.kind = "IterMut" -> IterMut_nth(c, n, S)
      [] c.kind = "SparseIter" -> SparseIter_nth(c, n, S)
      [] c.kind = "SparseIterMut" -> SparseIterMut_nth(c, n, S)
      [] c.kind = "Drain" -> Drain_nth(c, n, S)
      [] c.kind = "SparseDrain" -> SparseDrain_nth(c, n, S)
      [] c.kind = "NegatedIter" -> NegatedIter_nth(c, n, S)
      [] c.kind = "NegatedSparseIter" -> NegatedSparseIter_nth(c, n, S)
      [] c.kind = "EntitiesIter" -> EntitiesIter_nth(c, n, S)

Base_next(c, S) ==
    CASE c.kind = "Iter" -> Iter_next(c, S)
      [] c.kind = "IterMut" -> IterMut_next(c, S)
      [] c.kind = "SparseIter" -> SparseIter_next(c, S)
      [] c.kind = "SparseIterMut" -> SparseIterMut_next(c, S)
      [] c.kind = "Drain" -> Drain_next(c, S)
      [] c.kind = "SparseDrain" -> SparseDrain_next(c, S)
      [] c.kind = "NegatedIter" -> NegatedIter_next(c, S)
      [] c.kind = "NegatedSparseIter" -> NegatedSparseIter_next(c, S)
      [] c.kind = "EntitiesIter" -> EntitiesIter_next(c, S)

(* Maybe<T>(T): f0 is the wrapped strategy *)

Maybe_new(inner) == [kind |-> "Maybe", f0 |-> inner]

\* the hint of the wrapped strategy handed on, as if its gaps were the join's
Maybe_may_skip_inner(c, curr, S) ==
    [c |-> [c EXCEPT !.f0 = Base_may_skip(c.f0, curr, S).c],
     n |-> Base_may_skip(c.f0, curr, S).n,
     panic |-> Base_may_skip(c.f0, curr, S).panic]

Maybe_may_skip(c, curr, S) == [c |-> c, n |-> 0, panic |-> FALSE]

\* the wrapped strategy's result mapped instead of wrapped: absent stays absent
Maybe_wrap_mapped(c, i) ==
    [c |-> [c EXCEPT !.f0 = i.c],
     r |-> IF is_some(i.r) THEN Some([some |-> i.r]) ELSE None, s |-> i.s,
     panic |-> i.panic]

\* Some(self.0.nth(n)), given what the wrapped strategy returned
Maybe_wrap(c, i) ==
    [c |-> [c EXCEPT !.f0 = i.c], r |-> Some([some |-> i.r]), s |-> i.s,
     panic |-> i.panic]

Maybe_nth(c, n, S) == Maybe_wrap(c, Base_nth(c.f0, n, S))

Maybe_next(c, S) == Maybe_wrap(c, Base_next(c.f0, S))

Join_may_skip(c, curr, S) ==
    IF c.kind = "Maybe" THEN Maybe_may_skip(c, curr, S) ELSE Base_may_skip(c, curr, S)

Iterator_nth(c, n, S) ==
    IF c.kind = "Maybe" THEN Maybe_nth(c, n, S) ELSE Base_nth(c, n, S)

Iterator_next(c, S) ==
    IF c.kind = "Maybe" THEN Maybe_next(c, S) ELSE Base_next(c, S)

-----------------------------------------------------------------------------
(* TupleJoinN(A::Joined, B::Joined, ...): cs is the tuple of strategies.   *)

\* all_some of the items of the components, in order
\* match (a, b) { (Some(a), Some(b)) => Some((a, b)), _ => None }
all_some(items) ==
    IF \A i \in 1..Len(items) : is_some(items[i])
    THEN Some([i \in 1..Len(items) |-> unwrap(items[i])])
    ELSE None

\* the composite's result from what its components returned
TupleJoin_result(e) ==
    [c |-> e.c, r |-> IF e.panic THEN None ELSE all_some(e.items),
     s |-> e.s, panic |-> e.panic]

\* component i has returned a: go on with the components after it
RECURSIVE TupleJoin_next_from(_, _, _)
TupleJoin_next_got(cs, i, a) ==
    IF a.panic
    THEN [c |-> [cs EXCEPT ![i] = a.c], items |-> <<>>, s |-> a.s, panic |-> TRUE]
    ELSE [TupleJoin_next_from([cs EXCEPT ![i] = a.c], a.s, i + 1)
            EXCEPT !.items = <<a.r>> \o @]

\* let a = self.0.next(); let b = self.1.next(); ... from component i on
TupleJoin_next_from(cs, S, i) ==
    IF i > Len(cs)
    THEN [c |-> cs, items |-> <<>>, s |-> S, panic |-> FALSE]
    ELSE TupleJoin_next_got(cs, i, Iterator_next(cs[i], S))

TupleJoin_next(cs, S) == TupleJoin_result(TupleJoin_next_from(cs, S, 1))

\* the composite's nth: every component is advanced to the same position
RECURSIVE TupleJoin_nth_from(_, _, _, _)
TupleJoin_nth_got(cs, n, i, a) ==
    IF a.panic
    THEN [c |-> [cs EXCEPT ![i] = a.c], items |-> <<>>, s |-> a.s, panic |-> TRUE]
    ELSE [TupleJoin_nth_from([cs EXCEPT ![i] = a.c], n, a.s, i + 1)
            EXCEPT !.items = <<a.r>> \o @]

TupleJoin_nth_from(cs, n, S, i) ==
    IF i > Len(cs)
    THEN [c |-> cs, items |-> <<>>, s |-> S, panic |-> FALSE]
    ELSE TupleJoin_nth_got(cs, n, i, Iterator_nth(cs[i], n, S))

TupleJoin_nth(cs, n, S) ==
    IF n = 0
    THEN TupleJoin_next(cs, S)
    ELSE TupleJoin_result(TupleJoin_nth_from(cs, n, S, 1))

\* the composite's hint: the maximum of the components' hints at curr
TupleJoin_hints(ms) ==
    [c |-> [i \in 1..Len(ms) |-> ms[i].c],
     n |-> Max({ms[i].n : i \in 1..Len(ms)}),
     panic |-> \E i \in 1..Len(ms) : ms[i].panic]

TupleJoin_may_skip(cs, curr, S) ==
    TupleJoin_hints([i \in 1..Len(cs) |-> Join_may_skip(cs[i], curr, S)])

(* Joined<T> { iter, len, pos }.  iter is kept as the sequence of its      *)
(* strategies: one for a plain source, N for a TupleJoinN; an item is kept *)
(* as the sequence of its components.                                      *)

Single_hint(m) == [c |-> <<m.c>>, n |-> m.n, panic |-> m.panic]

Single_item(a) ==
    [c |-> <<a.c>>, r |-> IF is_some(a.r) THEN Some(<<unwrap(a.r)>>) ELSE None,
     s |-> a.s, panic |-> a.panic]

Joined_may_skip(cs, curr, S) ==
    IF Len(cs) = 1
    THEN Single_hint(Join_may_skip(cs[1], curr, S))
    ELSE TupleJoin_may_skip(cs, curr, S)

Joined_nth(cs, n, S) ==
    IF Len(cs) = 1
    THEN Single_item(Iterator_nth(cs[1], n, S))
    ELSE TupleJoin_nth(cs, n, S)

\* the outcome of a call of Joined::next: status is "some" (item returned),
\* "none", "panic", or "hang" when the loop comes back to a state it was in
Outcome(cs, ps, S, status, item) ==
    [iter |-> cs, pos |-> ps, s |-> S, status |-> status, item |-> item]

RECURSIVE Joined_next(_, _, _, _, _)

\* if let Some(item) = self.iter.nth(nth) { return Some(item) } else { self.pos += 1 }
Joined_next_item(ln, p1, seen, a) ==
    IF a.panic
    THEN Outcome(a.c, p1, a.s, "panic", None)
    ELSE IF is_some(a.r)
    THEN Outcome(a.c, p1, a.s, "some", a.r)
    ELSE IF add(p1, 1).panic
    THEN Outcome(a.c, p1, a.s, "panic", None)
    ELSE Joined_next(a.c, ln, add(p1, 1).v, a.s, seen)

\* let nth = self.iter.may_skip(self.pos); self.pos += nth;
Joined_next_hint(ln, ps, S, seen, m) ==
    IF m.panic \/ add(ps, m.n).panic
    THEN Outcome(m.c, ps, S, "panic", None)
    ELSE Joined_next_item(ln, add(ps, m.n).v, seen, Joined_nth(m.c, m.n, S))

\* while self.pos < self.len { ... } None
Joined_next(cs, ln, ps, S, seen) ==
    IF ~(ps < ln)
    THEN Outcome(cs, ps, S, "none", None)
    ELSE IF <<cs, ps, S>> \in seen
    THEN Outcome(cs, ps, S, "hang", None)
    ELSE Joined_next_hint(ln, ps, S, seen \cup {<<cs, ps, S>>},
                          Joined_may_skip(cs, ps, S))

-----------------------------------------------------------------------------
(* Joinable: the sources of a join and what join() makes of each.          *)

\* the value a source expression evaluates to before join() is called on it
Handle(e, S) ==
    CASE e.kind = "Storage::drain" -> Drain_new(e.st)
      [] e.kind = "SparseStorage::drain" -> SparseDrain_new(e.st)
      [] e.kind = "maybe(&Storage)" -> Maybe_new(Iter_new(e.st, S))
      [] e.kind = "maybe(&SparseStorage)" -> Maybe_new(SparseIter_new(e.st))
      [] OTHER -> e

unwrap_or(o, d) == IF is_some(o) THEN unwrap(o) ELSE d

\* Joinable::join of one source: [iter, len]
Joinable_join(h, S) ==
    CASE h.kind = "&Storage" ->
            [iter |-> Iter_new(h.st, S), len |-> Len(S[h.st].inner)]
      [] h.kind = "&mut Storage" ->
            [iter |-> IterMut_new(h.st, S), len |-> Len(S[h.st].inner)]
      [] h.kind = "&SparseStorage" ->
            [iter |-> SparseIter_new(h.st),
             len |-> unwrap_or(last_key(S[h.st].inner), 0)]
      [] h.kind = "&mut SparseStorage" ->
            [iter |-> SparseIterMut_new(h.st, S),
             len |-> unwrap_or(last_key(S[h.st].inner), 0)]
      [] h.kind = "Drain" ->
            [iter |-> h, len |-> Len(S[h.st].inner)]
      [] h.kind = "SparseDrain" ->
            [iter |-> h,
             len |-> IF is_some(last_key(S[h.st].inner))
                     THEN unwrap(last_key(S[h.st].inner)) + 1 ELSE 0]
      [] h.kind = "!&Storage" ->
            [iter |-> NegatedIter_new(h.st, S), len |-> USIZE_MAX]
      [] h.kind = "!&SparseStorage" ->
            [iter |-> NegatedSparseIter_new(h.st), len |-> USIZE_MAX]
      [] h.kind = "Entities" ->
            [iter |-> EntitiesIter_new, len |-> USIZE_MAX]
      [] h.kind = "Maybe" ->
            [iter |-> h, len |-> USIZE_MAX]

\* join() of a plain source or of a tuple: the minimum of the lengths
Tuple_join(hs, S) ==
    LET js == [i \in 1..Len(hs) |-> Joinable_join(hs[i], S)]
    IN  [iter |-> [i \in 1..Len(hs) |-> js[i].iter],
         len |-> Min({js[i].len : i \in 1..Len(hs)})]

\* dropping the strategies: only SparseDrain implements Drop
RECURSIVE drop_all(_, _, _)
drop_all(cs, S, i) ==
    IF i > Len(cs) THEN S
    ELSE drop_all(cs, IF cs[i].kind = "SparseDrain"
                      THEN SparseDrain_drop(cs[i], S) ELSE S, i + 1)

-----------------------------------------------------------------------------
(* The program: storages are built, joinable expressions are formed over   *)
(* them, join() is called, next() is called any number of times, and the   *)
(* join (or the unjoined handle) is dropped.                               *)

Joins == DOMAIN phase

\* a panic unwinds and a hung call never returns: nothing else runs then
Running == \A k \in Joins : phase[k] \notin {"panicked", "hung"}

Live(k) == phase[k] \in {"handle", "joined"}

\* the storages once every live join has been dropped
RECURSIVE drop_joins(_, _)
drop_joins(S, k) ==
    IF k > Len(phase) THEN S
    ELSE drop_joins(IF Live(k) THEN drop_all(iter[k], S, 1) ELSE S, k + 1)

\* unwinding from a panic in join j
Unwind(j, S) ==
    /\ store' = drop_joins(S, 1)
    /\ phase' = [k \in Joins |-> IF k = j THEN "panicked"
                                 ELSE IF Live(k) THEN "dropped" ELSE phase[k]]

\* the cursor of a drain handle
Cursor(c) == IF c.kind = "Drain" THEN c.f1 ELSE c.position

\* Iterator::next called on a drain handle that was not joined
Pulled(j, a) ==
    /\ iter' = [iter EXCEPT ![j] = <<a.c>>]
    /\ IF a.panic
       THEN /\ Unwind(j, a.s)
            /\ UNCHANGED <<out, last>>
       ELSE /\ store' = a.s
            /\ out' = [out EXCEPT ![j] =
                         IF is_some(a.r) THEN Append(@, <<unwrap(a.r)>>) ELSE @]
            /\ last' = [last EXCEPT ![j] = IF is_some(a.r) THEN "some" ELSE "none"]
            /\ UNCHANGED phase

Pull(j) ==
    /\ Running
    /\ phase[j] = "handle"
    /\ Len(iter[j]) = 1
    /\ iter[j][1].kind \in {"Drain", "SparseDrain"}
    /\ Cursor(iter[j][1]) <= MaxId + 1
    /\ Pulled(j, Iterator_next(iter[j][1], store))
    /\ UNCHANGED <<overflow_checks, src, len, pos, store0, ret>>

\* the sources of join j, evaluated now if they have not been yet
Handles(j) ==
    IF phase[j] = "source"
    THEN [i \in 1..Len(src[j]) |-> Handle(src[j][i], store)]
    ELSE iter[j]

\* Joinable::join and Joined::new
Join(j) ==
    /\ Running
    /\ phase[j] \in {"source", "handle"}
    /\ iter' = [iter EXCEPT ![j] = Tuple_join(Handles(j), store).iter]
    /\ len' = [len EXCEPT ![j] = Tuple_join(Handles(j), store).len]
    /\ pos' = [pos EXCEPT ![j] = 0]
    /\ phase' = [phase EXCEPT ![j] = "joined"]
    /\ store0' = IF phase[j] = "source" THEN store ELSE store0
    /\ UNCHANGED <<store, overflow_checks, src, out, last, ret>>

\* one call of Joined::next has ended as r
Returned(j, r) ==
    /\ iter' = [iter EXCEPT ![j] = r.iter]
    /\ pos' = [pos EXCEPT ![j] = r.pos]
    /\ CASE r.status = "some" ->
              /\ out' = [out EXCEPT ![j] = Append(@, unwrap(r.item))]
              /\ last' = [last EXCEPT ![j] = "some"]
              /\ store' = r.s
              /\ UNCHANGED phase
         [] r.status = "none" ->
              /\ last' = [last EXCEPT ![j] = "none"]
              /\ store' = r.s
              /\ UNCHANGED <<out, phase>>
         [] r.status = "panic" ->
              /\ Unwind(j, r.s)
              /\ UNCHANGED <<out, last>>
         [] r.status = "hang" ->
              /\ phase' = [phase EXCEPT ![j] = "hung"]
              /\ store' = r.s
              /\ UNCHANGED <<out, last>>

\* one call of Joined::next
Next(j) ==
    /\ Running
    /\ phase[j] = "joined"
    /\ Len(out[j]) < MaxOut
    /\ Returned(j, Joined_next(iter[j], len[j], pos[j], store, {}))
    /\ UNCHANGED <<overflow_checks, src, len, store0, ret>>

\* the ways a storage is borrowed exclusively into a join
MutKinds == {"&mut Storage", "&mut SparseStorage"}

\* the storages after the value v is stored through the reference r into
\* storage st
Assign(S, st, dense, r, v) ==
    [S EXCEPT ![st] =
        IF dense THEN [inner |-> [S[st].inner EXCEPT ![r.at + 1] = Some(v)]]
        ELSE [inner |-> MapInsert(S[st].inner, r.at, v)]]

\* *x = v through the mutable reference x that is component k of the n-th
\* tuple join j has yielded
Write(j, n, k, v) ==
    /\ Running
    /\ phase[j] = "joined"
    /\ n \in 1..Len(out[j])
    /\ k \in 1..Len(src[j])
    /\ src[j][k].kind \in MutKinds
    /\ store' = Assign(store, src[j][k].st, src[j][k].kind = "&mut Storage",
                       out[j][n][k], v)
    /\ UNCHANGED <<overflow_checks, src, phase, iter, len, pos, out, last, store0, ret>>

\* the source expressions of join j are evaluated: s.drain() makes its handle
Borrow(j) ==
    /\ Running
    /\ phase[j] = "source"
    /\ iter' = [iter EXCEPT ![j] = Handles(j)]
    /\ phase' = [phase EXCEPT ![j] = "handle"]
    /\ store0' = store
    /\ UNCHANGED <<store, overflow_checks, src, len, pos, out, last, ret>>

\* the join, or the handle that was never joined, goes out of scope
Drop(j) ==
    /\ Running
    /\ Live(j)
    /\ store' = drop_all(iter[j], store, 1)
    /\ phase' = [phase EXCEPT ![j] = "dropped"]
    /\ UNCHANGED <<overflow_checks, src, iter, len, pos, out, last, store0, ret>>

-----------------------------------------------------------------------------
(* Initial states: the storages after construction and the joinable        *)
(* expressions formed over them.                                           *)

\* the value stored for identifier id in storage st (T is opaque to the code)
Val(st, id) == 10 * st + id

\* presence patterns of a dense storage of length at most L
Patterns(L) == UNION {[1..n -> BOOLEAN] : n \in 0..L}

Dense(st, p) ==
    [inner |-> [i \in 1..Len(p) |-> IF p[i] THEN Some(Val(st, i - 1)) ELSE None]]

Sparse(st, K) == [inner |-> [k \in K |-> Val(st, k)]]

\* e[j] is the tuple of sources of join j over the storages S
InitWith(S, e) ==
    /\ store = S
    /\ store0 = S
    /\ ret = [s \in 1..Len(S) |-> None]
    /\ src = e
    /\ phase = [j \in 1..Len(e) |-> "handle"]
    /\ iter = [j \in 1..Len(e) |-> [i \in 1..Len(e[j]) |-> Handle(e[j][i], S)]]
    /\ len = [j \in 1..Len(e) |-> 0]
    /\ pos = [j \in 1..Len(e) |-> 0]
    /\ out = [j \in 1..Len(e) |-> <<>>]
    /\ last = [j \in 1..Len(e) |-> ""]

Source(kind, st) == [kind |-> kind, st |-> st]

MaxLenOf(n) == IF n = 2 THEN MaxLen2 ELSE IF n = 3 THEN MaxLen3 ELSE MaxLen4

\* (&a, &mut b, ...).join() over two to four dense storages
InitDense ==
    /\ overflow_checks = TRUE
    /\ \E n \in 2..4 :
       \E ks \in [1..n -> {"&Storage", "&mut Storage"}] :
       \E ps \in [1..n -> Patterns(MaxLenOf(n))] :
          InitWith([i \in 1..n |-> Dense(i, ps[i])],
                   <<[i \in 1..n |-> Source(ks[i], i)]>>)

JoinAny == \E j \in Joins : Join(j)
NextAny == \E j \in Joins : Next(j)
DropAny == \E j \in Joins : Drop(j)
PullAny == \E j \in Joins : Pull(j)

NextJoin == JoinAny \/ NextAny \/ DropAny

SpecDense == InitDense /\ [][NextJoin]_vars

\* (&a, &b, ...).join() over one to three sparse storages
InitSparse ==
    /\ overflow_checks \in BOOLEAN
    /\ \E n \in 1..3 :
       \E Ks \in [1..n -> SUBSET Ids] :
          InitWith([i \in 1..n |-> Sparse(i, Ks[i])],
                   <<[i \in 1..n |-> Source("&SparseStorage", i)]>>)

SpecSparse == InitSparse /\ [][NextJoin]_vars

\* whether source e is over a Storage or over a SparseStorage
IsDense(e) ==
    e.kind \in {"&Storage", "&mut Storage", "Storage::drain", "!&Storage",
                "maybe(&Storage)"}

IsSparse(e) ==
    e.kind \in {"&SparseStorage", "&mut SparseStorage", "SparseStorage::drain",
                "!&SparseStorage", "maybe(&SparseStorage)"}

StorageKinds ==
    {"&Storage", "&mut Storage", "&SparseStorage", "&mut SparseStorage",
     "Storage::drain", "SparseStorage::drain"}

\* the contents storage st can have under a source of the given kind
Contents(kind, st, L) ==
    IF IsDense(Source(kind, st))
    THEN {Dense(st, p) : p \in Patterns(L)}
    ELSE {Sparse(st, K) : K \in SUBSET Ids}

Entities == [kind |-> "Entities"]

\* the tuple es, with Entities as its last component if ent
WithEntities(es, ent) == IF ent THEN Append(es, Entities) ELSE es

\* a.join(), (a, Entities).join(), (a, b).join() and (a, b, Entities).join()
\* over storages of any kind, borrowed shared, exclusively or drained
InitMixed ==
    /\ overflow_checks \in BOOLEAN
    /\ \E ent \in BOOLEAN : \E k1 \in StorageKinds :
       \E s1 \in Contents(k1, 1, MaxId) :
          \/ InitWith(<<s1>>, <<WithEntities(<<Source(k1, 1)>>, ent)>>)
          \/ \E k2 \in StorageKinds : \E s2 \in Contents(k2, 2, MaxId) :
                InitWith(<<s1, s2>>,
                         <<WithEntities(<<Source(k1, 1), Source(k2, 2)>>, ent)>>)

SpecMixed == InitMixed /\ [][NextJoin]_vars

\* a.join() over one storage of any kind, borrowed shared, exclusively or
\* drained
InitSingle ==
    /\ overflow_checks \in BOOLEAN
    /\ \E k1 \in StorageKinds : \E s1 \in Contents(k1, 1, MaxId + 1) :
          InitWith(<<s1>>, <<<<Source(k1, 1)>>>>)

SpecSingle == InitSingle /\ [][NextJoin]_vars

\* s.drain() of a dense or sparse storage, alone or joined with Entities
InitDrain ==
    /\ overflow_checks \in BOOLEAN
    /\ \E ent \in BOOLEAN : \E k1 \in {"Storage::drain", "SparseStorage::drain"} :
       \E s1 \in Contents(k1, 1, MaxId + 1) :
          InitWith(<<s1>>, <<WithEntities(<<Source(k1, 1)>>, ent)>>)

NextDrain == PullAny \/ JoinAny \/ NextAny \/ DropAny

\* the drain handle may be pulled directly before it is joined or dropped
SpecDrain == InitDrain /\ [][NextDrain]_vars

\* the drain handle is only ever used through join()
SpecDrainJoin == InitDrain /\ [][NextJoin]_vars

\* (&a, !&b, Entities).join() with a dense and b dense or sparse
InitNot ==
    /\ overflow_checks \in BOOLEAN
    /\ \E k2 \in {"!&Storage", "!&SparseStorage"} :
       \E s1 \in Contents("&Storage", 1, MaxId + 1) :
       \E s2 \in Contents(k2, 2, MaxId + 1) :
          InitWith(<<s1, s2>>, <<<<Source("&Storage", 1), Source(k2, 2), Entities>>>>)

SpecNot == InitNot /\ [][NextJoin]_vars

\* the storage st with values at the identifiers K, dense or sparse as the
\* source kind asks (a dense array ends at its last value)
Filled(kind, st, K) ==
    IF IsDense(Source(kind, st))
    THEN [inner |-> [i \in 1..(IF K = {} THEN 0 ELSE Max(K) + 1) |->
                        IF (i - 1) \in K THEN Some(Val(st, i - 1)) ELSE None]]
    ELSE Sparse(st, K)

MaybeKinds == {"maybe(&Storage)", "maybe(&SparseStorage)"}

\* a.join() next to (a, b.maybe()).join(): storages 1 and 2 hold values at
\* the same identifiers, storage 3 is b
InitMaybe ==
    /\ overflow_checks \in BOOLEAN
    /\ \E kA \in StorageKinds : \E kB \in MaybeKinds :
       \E KA \in SUBSET Ids : \E KB \in SUBSET (0..MaxLen3) :
          InitWith(<<Filled(kA, 1, KA), Filled(kA, 2, KA), Filled(kB, 3, KB)>>,
                   <<<<Source(kA, 1)>>, <<Source(kA, 2), Source(kB, 3)>>>>)

NextMaybe == JoinAny \/ NextAny

\* (&a).join() next to (&mut a).join(): storages 1 and 2 are of one kind,
\* dense or sparse, and hold values at the same identifiers
InitBorrow ==
    /\ overflow_checks \in BOOLEAN
    /\ \/ \E p \in Patterns(MaxId + 1) :
             InitWith(<<Dense(1, p), Dense(2, p)>>,
                      <<<<Source("&Storage", 1)>>, <<Source("&mut Storage", 2)>>>>)
       \/ \E K \in SUBSET Ids :
             InitWith(<<Sparse(1, K), Sparse(2, K)>>,
                      <<<<Source("&SparseStorage", 1)>>,
                        <<Source("&mut SparseStorage", 2)>>>>)

SpecBorrow == InitBorrow /\ [][NextJoin]_vars

\* (&a, (&b).maybe(), Entities).join() with a dense and b dense or sparse
InitMaybeEntities ==
    /\ overflow_checks \in BOOLEAN
    /\ \E kB \in MaybeKinds :
       \E s1 \in Contents("&Storage", 1, MaxId + 1) :
       \E s2 \in Contents(kB, 2, MaxId + 1) :
          InitWith(<<s1, s2>>, <<<<Source("&Storage", 1), Source(kB, 2), Entities>>>>)

SpecMaybeEntities == InitMaybeEntities /\ [][NextJoin]_vars

SpecMaybe == InitMaybe /\ [][NextMaybe]_vars

(* The same insert, remove and clear calls are made on a dense storage     *)
(* (store[1]) and on a sparse storage (store[2]); then each is joined with *)
(* Entities.                                                               *)

Vals == {1, 2}

Unborrowed == \A j \in Joins : phase[j] = "source"

Insert(idx, c) ==
    /\ Unborrowed
    /\ store' = <<Storage_insert(store[1], idx, c).s,
                  SparseStorage_insert(store[2], idx, c).s>>
    /\ ret' = <<Storage_insert(store[1], idx, c).r,
                SparseStorage_insert(store[2], idx, c).r>>
    /\ UNCHANGED <<overflow_checks, src, phase, iter, len, pos, out, last, store0>>

Remove(idx) ==
    /\ Unborrowed
    /\ store' = <<Storage_remove(store[1], idx).s,
                  SparseStorage_remove(store[2], idx).s>>
    /\ ret' = <<Storage_remove(store[1], idx).r,
                SparseStorage_remove(store[2], idx).r>>
    /\ UNCHANGED <<overflow_checks, src, phase, iter, len, pos, out, last, store0>>

Clear ==
    /\ Unborrowed
    /\ store' = <<Storage_clear(store[1]), SparseStorage_clear(store[2])>>
    /\ UNCHANGED <<overflow_checks, src, phase, iter, len, pos, out, last, store0, ret>>

InsertAny == \E idx \in Ids : \E c \in Vals : Insert(idx, c)
RemoveAny == \E idx \in 0..(MaxId + 1) : Remove(idx)

InitOps ==
    /\ overflow_checks \in BOOLEAN
    /\ store = <<Storage_new, SparseStorage_new>>
    /\ store0 = store
    /\ ret = <<None, None>>
    /\ src = <<<<Source("&Storage", 1), Entities>>,
               <<Source("&SparseStorage", 2), Entities>>>>
    /\ phase = <<"source", "source">>
    /\ iter = <<<<>>, <<>>>>
    /\ len = <<0, 0>>
    /\ pos = <<0, 0>>
    /\ out = <<<<>>, <<>>>>
    /\ last = <<"", "">>

NextOps == InsertAny \/ RemoveAny \/ Clear \/ JoinAny \/ NextAny \/ DropAny

SpecOps == InitOps /\ [][NextOps]_vars

\* (&names, &mut health, Entities).join() over two dense storages, with
\* writes through the yielded mutable references
InitFrame ==
    /\ overflow_checks \in BOOLEAN
    /\ \E s1 \in Contents("&Storage", 1, MaxId) :
       \E s2 \in Contents("&mut Storage", 2, MaxId) :
          InitWith(<<s1, s2>>,
                   <<<<Source("&Storage", 1), Source("&mut Storage", 2), Entities>>>>)

WriteAny ==
    \E j \in Joins : \E n \in 1..MaxOut : \E k \in 1..4 : \E v \in Vals :
        Write(j, n, k, v)

NextFrame == JoinAny \/ NextAny \/ WriteAny \/ DropAny

SpecFrame == InitFrame /\ [][NextFrame]_vars

\* insert, remove and clear on a dense storage (mirrored on a sparse one),
\* and s.drain() handles on the dense storage, pulled directly or joined
InitLen ==
    /\ overflow_checks \in BOOLEAN
    /\ store = <<Storage_new, SparseStorage_new>>
    /\ store0 = store
    /\ ret = <<None, None>>
    /\ src = <<<<Source("Storage::drain", 1)>>>>
    /\ phase = <<"source">>
    /\ iter = <<<<>>>>
    /\ len = <<0>>
    /\ pos = <<0>>
    /\ out = <<<<>>>>
    /\ last = <<"">>

BorrowAny == \E j \in Joins : Borrow(j)

NextLen ==
    \/ InsertAny \/ RemoveAny \/ Clear
    \/ BorrowAny \/ PullAny \/ JoinAny \/ NextAny \/ DropAny

SpecLen == InitLen /\ [][NextLen]_vars

\* only the calls on the two storages, no join
NextMap == InsertAny \/ RemoveAny \/ Clear

SpecMap == InitOps /\ [][NextMap]_vars


-----------------------------------------------------------------------------
(* What a join is expected to yield.                                       *)

\* the value the storage of source e holds for identifier i
Get(e, S, i) ==
    IF IsDense(e) THEN Storage_get(S[e.st], i) ELSE SparseStorage_get(S[e.st], i)

\* every identifier a storage of the model can hold a value for
AllIds == 0..(MaxId + MaxLen2 + 1)

\* the sources of join j that require a value: storages and drains
Required(j) ==
    {i \in 1..Len(src[j]) :
        src[j][i].kind \in {"&Storage", "&mut Storage", "Storage::drain",
                            "&SparseStorage", "&mut SparseStorage",
                            "SparseStorage::drain"}}

\* the negated sources of join j
Negations(j) ==
    {i \in 1..Len(src[j]) : src[j][i].kind \in {"!&Storage", "!&SparseStorage"}}

\* the identifiers that hold a value in every storage of join j, and none in
\* a negated one
Common(j, S) ==
    {i \in AllIds : /\ \A k \in Required(j) : is_some(Get(src[j][k], S, i))
                    /\ \A k \in Negations(j) : is_none(Get(src[j][k], S, i))}

\* the component a source contributes to the tuple of identifier i
ComponentAt(e, S, i) ==
    CASE e.kind = "Entities" -> [entity |-> i]
      [] e.kind \in {"!&Storage", "!&SparseStorage"} -> Unit
      [] e.kind \in {"maybe(&Storage)", "maybe(&SparseStorage)"} ->
            [some |-> Ref(i, Get(e, S, i))]
      [] OTHER -> [at |-> i, val |-> unwrap(Get(e, S, i))]

\* the tuple of the values stored under identifier i
TupleAt(j, S, i) ==
    [k \in 1..Len(src[j]) |-> ComponentAt(src[j][k], S, i)]

\* one tuple for each common identifier, in ascending order
Expected(j, S) ==
    LET ids == SortedKeys(Common(j, S))
    IN  [n \in 1..Len(ids) |-> TupleAt(j, S, ids[n])]

IsPrefix(s, t) == Len(s) <= Len(t) /\ SubSeq(t, 1, Len(s)) = s

-----------------------------------------------------------------------------
(* C1: a tuple join over two to four dense storages, borrowed shared or    *)
(* exclusively, yields one tuple for exactly each identifier that holds a  *)
(* value in every storage, with the values stored under it, and nothing    *)
(* else: what has been yielded is always the beginning of that sequence,   *)
(* it is all of it once next returns no value, and no call panics or hangs.*)
C1_DenseTupleJoin ==
    /\ phase[1] \notin {"panicked", "hung"}
    /\ IsPrefix(out[1], Expected(1, store0))
    /\ last[1] = "none" => out[1] = Expected(1, store0)

\* a join of three storages, borrowed shared and exclusively, has been pulled
\* to its end, has yielded a tuple, and has passed over an identifier that
\* only some of the storages hold
C1_Witness ==
    /\ Len(src[1]) = 3
    /\ \E k \in 1..3 : src[1][k].kind = "&mut Storage"
    /\ \E k \in 1..3 : src[1][k].kind = "&Storage"
    /\ last[1] = "none"
    /\ Len(out[1]) >= 1
    /\ \E i \in AllIds : \E k \in 1..3 :
          /\ i \notin Common(1, store0)
          /\ is_some(Get(src[1][k], store0, i))
          /\ i < out[1][1][1].at


-----------------------------------------------------------------------------
(* C2: a join over shared references to one or more sparse storages yields *)
(* exactly one item for each identifier that is a key of every storage     *)
(* (also when that key is 0 or the greatest key), no item for any other    *)
(* identifier and no identifier more than once.                            *)
C2_SparseJoin ==
    /\ IsPrefix(out[1], Expected(1, store0))
    /\ last[1] = "none" => out[1] = Expected(1, store0)


-----------------------------------------------------------------------------
\* join j mixes a borrowed dense storage with a borrowed sparse storage
MixedJoin(j) ==
    /\ \E k \in 1..Len(src[j]) : src[j][k].kind \in {"&Storage", "&mut Storage"}
    /\ \E k \in 1..Len(src[j]) :
          src[j][k].kind \in {"&SparseStorage", "&mut SparseStorage"}

\* every component of tuple t was read from identifier i of its own storage
StoredUnder(j, t, i) ==
    \A k \in Required(j) :
        /\ is_some(Get(src[j][k], store0, i))
        /\ t[k] = [at |-> i, val |-> unwrap(Get(src[j][k], store0, i))]

\* the identifiers the storage components of the tuples of join j were read at
YieldedAt(j) ==
    [n \in 1..Len(out[j]) |-> [k \in Required(j) |-> out[j][n][k].at]]

(* C3: in a join that mixes storage kinds, every yielded tuple consists of *)
(* values stored under one and the same identifier in their storages, and  *)
(* exactly one tuple is yielded for each identifier present in all of      *)
(* them, also after earlier tuples have been yielded.                      *)
C3_MixedJoin ==
    MixedJoin(1) =>
        /\ \A n \in 1..Len(out[1]) : \E i \in AllIds : StoredUnder(1, out[1][n], i)
        /\ IsPrefix(out[1], Expected(1, store0))
        /\ last[1] = "none" => out[1] = Expected(1, store0)

(* C4: after the same insert, remove and clear calls on a dense and on a   *)
(* sparse storage, the join of the dense one with Entities and the join of *)
(* the sparse one with Entities yield the same sequence of (value,         *)
(* identifier) items.                                                      *)
Items(j) == [n \in 1..Len(out[j]) |-> <<out[j][n][1].val, out[j][n][2].entity>>]

\* the ways a storage is borrowed into a join
BorrowKinds == {"&Storage", "&mut Storage", "&SparseStorage", "&mut SparseStorage"}

C4_DenseSparseEquivalent ==
    /\ IsPrefix(Items(1), Items(2)) \/ IsPrefix(Items(2), Items(1))
    /\ last[1] = "none" /\ last[2] = "none" => Items(1) = Items(2)

(* C5: across successive calls of next on any join, the identifiers at     *)
(* which items are yielded are strictly increasing.                        *)
C5_StrictlyAscending ==
    \A n \in 1..(Len(out[1]) - 1) : \A k \in Required(1) :
        YieldedAt(1)[n][k] < YieldedAt(1)[n + 1][k]

(* C6: in a tuple join that includes Entities, the Entity of every yielded *)
(* tuple is the identifier under which the other components of that tuple  *)
(* are stored.                                                             *)
C6_EntityIsIdentifier ==
    (/\ src[1][Len(src[1])].kind = "Entities"
     /\ \A k \in Required(1) : src[1][k].kind \in BorrowKinds) =>
        \A n \in 1..Len(out[1]) :
            StoredUnder(1, out[1][n], out[1][n][Len(src[1])].entity)

(* C7: once the handle of Storage::drain has gone out of use, pulled or    *)
(* not, joined or not, get returns absent for every identifier that held a *)
(* value.                                                                  *)
C7_DenseDrainEmpties ==
    src[1][1].kind = "Storage::drain" /\ phase[1] = "dropped" =>
        \A i \in AllIds : is_none(Storage_get(store[1], i))

(* C8: once the handle of SparseStorage::drain is dropped, after any       *)
(* number of pulls or none, directly or by a panic unwinding, the storage  *)
(* holds no keys.                                                          *)
C8_SparseDrainEmpties ==
    src[1][1].kind = "SparseStorage::drain" /\ phase[1] \in {"dropped", "panicked"} =>
        DOMAIN store[1].inner = {}

\* a sparse drain over three or more keys was dropped after yielding one value
C8_Witness ==
    /\ src[1][1].kind = "SparseStorage::drain"
    /\ phase[1] = "dropped"
    /\ Cardinality(DOMAIN store0[1].inner) >= 3
    /\ Len(out[1]) = 1
    /\ DOMAIN store[1].inner = {}

(* C9: a join over a drain yields every value the storage held when the    *)
(* drain was created, each once and in ascending identifier order, and no  *)
(* pull removes a value from the storage without returning it.             *)
C9_DrainYieldsAll ==
    /\ IsPrefix(out[1], Expected(1, store0))
    /\ last[1] = "none" => out[1] = Expected(1, store0)
    /\ phase[1] = "joined" =>
          \A i \in AllIds :
              is_some(Get(src[1][1], store0, i)) /\ is_none(Get(src[1][1], store, i))
                  => \E n \in 1..Len(out[1]) : out[1][n][1].at = i

-----------------------------------------------------------------------------
\* the identifiers at which join j yielded the items of its first source
IdsOf(j) == [n \in 1..Len(out[j]) |-> out[j][n][1].at]

(* C11: the join (A, B.maybe()) yields the same number of items, at the    *)
(* same identifiers, as the join over A alone, whatever B contains: the    *)
(* identifiers yielded so far by one are the beginning of those yielded by *)
(* the other, and they are equal once both have returned no value.         *)
C11_MaybeSameLength ==
    /\ IsPrefix(IdsOf(1), IdsOf(2)) \/ IsPrefix(IdsOf(2), IdsOf(1))
    /\ last[1] = "none" /\ last[2] = "none" => IdsOf(1) = IdsOf(2)
    /\ last[1] = "none" /\ phase[2] = "joined" => Len(out[2]) <= Len(out[1])
    /\ last[2] = "none" /\ phase[1] = "joined" => Len(out[1]) <= Len(out[2])

\* both joins have ended after two or more items, at an identifier where B
\* holds a value and at one where it holds none
C11_Witness ==
    /\ src[1][1].kind = "&Storage"
    /\ last[1] = "none" /\ last[2] = "none"
    /\ Len(out[2]) >= 2
    /\ \E n \in 1..Len(out[2]) : is_some(out[2][n][2].some)
    /\ \E n \in 1..Len(out[2]) : is_none(out[2][n][2].some)


-----------------------------------------------------------------------------
\* what get(i) returns on the dense and on the sparse storage
GetBoth(S, i) == <<Storage_get(S[1], i), SparseStorage_get(S[2], i)>>

\* get returns the same for every identifier but idx
SameBut(S, T, idx) == \A i \in AllIds \ {idx} : GetBoth(T, i) = GetBoth(S, i)

(* C13: Storage and SparseStorage behave as partial maps. A step that is   *)
(* insert(idx, c) returns what get(idx) returned before, makes get(idx)    *)
(* return c and changes get for no other identifier; a step that is        *)
(* remove(idx) returns what get(idx) returned before, makes get(idx)       *)
(* absent and changes get for no other identifier, and beyond the dense    *)
(* array's length it returns absent and leaves the storage as it is; after *)
(* clear get is absent everywhere; get beyond the dense array's length is  *)
(* absent.                                                                 *)
C13_PartialMap ==
    [][/\ \A idx \in Ids : \A c \in Vals :
             Insert(idx, c) =>
                /\ ret' = GetBoth(store, idx)
                /\ GetBoth(store', idx) = <<Some(c), Some(c)>>
                /\ SameBut(store, store', idx)
       /\ \A idx \in 0..(MaxId + 1) :
             Remove(idx) =>
                /\ ret' = GetBoth(store, idx)
                /\ GetBoth(store', idx) = <<None, None>>
                /\ SameBut(store, store', idx)
                /\ idx >= Len(store[1].inner) =>
                      ret'[1] = None /\ store'[1] = store[1]
       /\ Clear => \A i \in AllIds : GetBoth(store', i) = <<None, None>>
       /\ \A i \in AllIds :
             i >= Len(store'[1].inner) => Storage_get(store'[1], i) = None
      ]_vars

\* a call has just returned the value it replaced or removed, and the two
\* storages hold a value at identifier 1 and none at identifier 0
C13_Witness ==
    /\ Unborrowed
    /\ ret = <<Some(1), Some(1)>>
    /\ GetBoth(store, 0) = <<None, None>>
    /\ GetBoth(store, 1) = <<Some(2), Some(2)>>


-----------------------------------------------------------------------------
\* the number of values the storage of source e held when it was joined
Held(e) == Cardinality({i \in AllIds : is_some(Get(e, store0, i))})

(* C14: a join with a finite upper bound ends: no call of next fails to    *)
(* return, the join yields at most as many items as the smallest storage   *)
(* in it holds values, and once next has returned no value the driver is   *)
(* at its bound, so that every later call returns no value as well.        *)
C14_Terminates ==
    /\ phase[1] # "hung"
    /\ \A k \in Required(1) : Len(out[1]) <= Held(src[1][k])
    /\ last[1] = "none" /\ phase[1] = "joined" => pos[1] >= len[1]


(* C15: no join step faults: where overflow is checked, the position       *)
(* arithmetic of the driver and of the strategies (pos += hint, pos += 1,  *)
(* cursor += n, key - curr) never leaves the range of usize and panics,    *)
(* also when a sparse strategy reports the hint usize::MAX, and the end of *)
(* the sequence is reported by next returning no value.                    *)
C15_NoOverflow == \A j \in Joins : phase[j] # "panicked"


-----------------------------------------------------------------------------
\* the upper bound a source is to hand to the driver
LenBound(e, S) ==
    CASE e.kind \in {"&Storage", "&mut Storage", "Storage::drain"} ->
            Len(S[e.st].inner)
      [] e.kind \in {"&SparseStorage", "&mut SparseStorage", "SparseStorage::drain"} ->
            IF DOMAIN S[e.st].inner = {} THEN 0 ELSE Max(DOMAIN S[e.st].inner) + 1
      [] OTHER -> USIZE_MAX

(* C16: the upper bound join() hands to the driver is the array length for *)
(* a dense storage, the greatest key plus one (zero if empty) for a sparse *)
(* storage joined shared, exclusively or as a drain, and usize::MAX for    *)
(* Entities, maybe and negation sources.                                   *)
C16_LenBound ==
    phase[1] = "joined" /\ Len(src[1]) = 1 => len[1] = LenBound(src[1][1], store0)


-----------------------------------------------------------------------------
\* the identifiers at which storage st holds a value
Present(S, st) == {i \in AllIds : is_some(Storage_get(S[st], i))}

(* C17: the join (&B, &mut A, Entities) leaves the contents of B and the   *)
(* set of identifiers present in A unchanged, and a write through the      *)
(* mutable value of a yielded tuple changes A's value at the identifier of *)
(* that tuple only, where get returns the written value afterwards.        *)
C17_Frame ==
    [][/\ store'[1] = store0[1]
       /\ Present(store', 2) = Present(store0, 2)
       /\ \A n \in 1..Len(out[1]) : \A v \in Vals :
             Write(1, n, 2, v) =>
                /\ Storage_get(store'[2], out[1][n][3].entity) = Some(v)
                /\ \A i \in AllIds \ {out[1][n][3].entity} :
                      Storage_get(store'[2], i) = Storage_get(store[2], i)
      ]_vars

\* the value of the second tuple yielded has been written, past an
\* identifier where one of the storages holds no value, and the join ended
C17_Witness ==
    /\ last[1] = "none"
    /\ Len(out[1]) >= 2
    /\ out[1][2][3].entity > out[1][1][3].entity + 1
    /\ Storage_get(store[2], out[1][2][3].entity) = Some(1)
    /\ Storage_get(store[2], out[1][1][3].entity) = Some(out[1][1][2].val)


-----------------------------------------------------------------------------
(* C18: whenever Joined::next returns, the driver's pos is the number of   *)
(* positions the strategy has consumed (for a dense strategy, the start of *)
(* what is left of its slice), and after next yields the value found at    *)
(* identifier p, pos is p + 1.                                             *)
C18_PosAdvances ==
    phase[1] = "joined" /\ Len(src[1]) = 1 /\ last[1] # "" =>
        /\ last[1] = "some" => pos[1] = out[1][Len(out[1])][1].at + 1
        /\ iter[1][1].kind \in {"Iter", "IterMut"} => pos[1] = iter[1][1].lo


-----------------------------------------------------------------------------
(* C19: the backing array of a dense Storage has length 0 when nothing was *)
(* inserted and otherwise (largest identifier ever inserted) + 1: a step   *)
(* that is insert(idx, c) makes the length the greater of the length and   *)
(* idx + 1, no other step (remove, clear, a drain pull, a get or remove    *)
(* out of range) changes it, and after clear every slot is absent.         *)
C19_DenseLength ==
    [][/\ \A idx \in Ids : \A c \in Vals :
             Insert(idx, c) =>
                Len(store'[1].inner) = Max({Len(store[1].inner), idx + 1})
       /\ (\A idx \in Ids : \A c \in Vals : ~Insert(idx, c)) =>
             Len(store'[1].inner) = Len(store[1].inner)
       /\ Clear => \A i \in 1..Len(store'[1].inner) : store'[1].inner[i] = None
      ]_vars

\* a storage that grew to three or more slots has been cleared, or drained
\* through a join, and then holds no value
C19_Witness ==
    /\ Len(store[1].inner) >= 3
    /\ \A i \in 1..Len(store[1].inner) : store[1].inner[i] = None
    /\ phase[1] = "joined" /\ last[1] = "none" /\ Len(out[1]) >= 1


-----------------------------------------------------------------------------
\* the ways a dense storage is borrowed into a join
DenseBorrows == {"&Storage", "&mut Storage"}

(* C20: in a join over one dense storage, borrowed shared or exclusively,  *)
(* may_skip returns exactly the number of consecutive absent slots that    *)
(* start at the strategy's cursor (the slots counted are absent, and the   *)
(* slot after them, if there is one, holds a value), and no position the   *)
(* strategy has gone past holds a value that was not yielded.              *)
C20_DenseHint ==
    \A j \in Joins :
        phase[j] = "joined" /\ Len(src[j]) = 1 /\ src[j][1].kind \in DenseBorrows =>
            LET c == iter[j][1]
                inner == store[c.st].inner
                n == Base_may_skip(c, pos[j], store).n
            IN  /\ c.lo + n <= Len(inner)
                /\ \A i \in c.lo..(c.lo + n - 1) : inner[i + 1] = None
                /\ c.lo + n < Len(inner) => inner[c.lo + n + 1] # None
                /\ Base_may_skip(c, pos[j], store).c = c
                /\ \A i \in 0..(c.lo - 1) :
                      inner[i + 1] # None =>
                         \E m \in 1..Len(out[j]) : out[j][m][1].at = i

\* tests::may_skip within the bounds: values at 0 and 3, the value at 0
\* yielded, and the hint at position 1 is 2
C20_Witness ==
    /\ phase[1] = "joined" /\ src[1] = <<Source("&Storage", 1)>>
    /\ Len(store[1].inner) = 4
    /\ store[1].inner[1] # None /\ store[1].inner[2] = None
    /\ store[1].inner[3] = None /\ store[1].inner[4] # None
    /\ Len(out[1]) = 1 /\ out[1][1][1].at = 0
    /\ iter[1][1].lo = 1
    /\ Iter_may_skip(iter[1][1], 1, store).n = 2


-----------------------------------------------------------------------------
\* the strategies over a SparseStorage
SparseStrategies == {"SparseIter", "SparseIterMut", "SparseDrain"}

(* C21: whenever the driver of a join over one sparse storage is about to  *)
(* call may_skip(p), with p its pos, the hint returned is (smallest key of *)
(* the storage that is >= p) - p, or usize::MAX when the storage has no    *)
(* key >= p.                                                               *)
C21_SparseHint ==
    \A j \in Joins :
        /\ phase[j] = "joined" /\ Len(src[j]) = 1
        /\ iter[j][1].kind \in SparseStrategies
        /\ pos[j] < len[j]
        => LET p == pos[j]
               keys == {k \in DOMAIN store[iter[j][1].st].inner : k >= p}
           IN  Base_may_skip(iter[j][1], p, store).n =
                  IF keys = {} THEN USIZE_MAX ELSE Min(keys) - p


-----------------------------------------------------------------------------
\* the number of positions a strategy has consumed
RECURSIVE Consumed(_)
Consumed(c) ==
    CASE c.kind \in {"Iter", "IterMut"} -> c.lo
      [] c.kind \in SparseStrategies -> c.position
      [] c.kind = "Drain" -> c.f1
      [] c.kind = "EntitiesIter" -> c.start
      [] OTHER -> Consumed(c.f0)

\* the position a component of a yielded tuple was found at
FoundAt(x) == IF "entity" \in DOMAIN x THEN x.entity ELSE x.at

\* the components of join j that are found at a position
Positioned(j) ==
    Required(j) \cup {i \in 1..Len(src[j]) : src[j][i].kind = "Entities"}

(* C22: when the advance of a tuple composite of arity 2 to 4 over         *)
(* borrowed storages (and Entities) has yielded a tuple, all its component *)
(* strategies have consumed the same number of positions, and the          *)
(* components of every tuple yielded were all found at one and the same    *)
(* position.                                                               *)
C22_Lockstep ==
    \A j \in Joins :
        /\ phase[j] = "joined" /\ Len(src[j]) \in 2..4 /\ last[j] = "some"
        /\ \A k \in Required(j) : src[j][k].kind \in BorrowKinds
        => /\ \A a, b \in 1..Len(iter[j]) :
                 Consumed(iter[j][a]) = Consumed(iter[j][b])
           /\ \A n \in 1..Len(out[j]) : \A a, b \in Positioned(j) :
                 FoundAt(out[j][n][a]) = FoundAt(out[j][n][b])


-----------------------------------------------------------------------------
\* component k of join j, whose strategy is c, jumps by hint n without
\* passing over a position where every component holds a value, unless it
\* has already yielded the value found there
JumpKeeps(j, k, c, n) ==
    \A i \in Common(j, store) :
        Consumed(c) <= i /\ i < Consumed(c) + n =>
            \E t \in 1..Len(out[j]) : FoundAt(out[j][t][k]) = i

(* C23: whenever the driver of a tuple join over borrowed storages (and    *)
(* Entities) is about to ask for the hint at its pos, the composite's hint *)
(* is the maximum of the components' hints at that position, and the jump  *)
(* by that hint makes no component pass over a position at which every     *)
(* component holds a value.                                                *)
C23_TupleHint ==
    \A j \in Joins :
        /\ phase[j] = "joined" /\ Len(src[j]) >= 2 /\ pos[j] < len[j]
        /\ \A k \in Required(j) : src[j][k].kind \in BorrowKinds
        => LET m == Joined_may_skip(iter[j], pos[j], store)
           IN  /\ m.n = Max({Join_may_skip(iter[j][k], pos[j], store).n :
                                k \in 1..Len(iter[j])})
               /\ \A k \in Positioned(j) : JumpKeeps(j, k, m.c[k], m.n)


-----------------------------------------------------------------------------
(* C24: a join over an exclusive reference to a storage yields its items   *)
(* at the same sequence of identifiers as a join over a shared reference   *)
(* to a storage with the same contents: the identifiers yielded so far by  *)
(* one are the beginning of those yielded by the other, and they are equal *)
(* once both have returned no value.                                       *)
C24_SharedExclusive ==
    /\ IsPrefix(IdsOf(1), IdsOf(2)) \/ IsPrefix(IdsOf(2), IdsOf(1))
    /\ last[1] = "none" /\ last[2] = "none" => IdsOf(1) = IdsOf(2)

====
